---- MODULE Spec2Model ----
(***************************************************************************)
(* GitSafe detection pipeline: unified-diff parser, rule registry, scan    *)
(* engine and aggregator, modelled from src/src/gitsafe.                   *)
(*                                                                         *)
(* A diff line is a record [k, first, path, start, content]: k is the one  *)
(* parser regex the line matches ("text" when it matches none), first is   *)
(* its first character, path / start are the captures of the diff and hunk *)
(* headers, content is what follows the first character of a text line.    *)
(* The content of a text line is a record: bom counts the U+FEFF           *)
(* characters it starts with, cr tells whether it ends with a carriage     *)
(* return, inner whether a carriage return stands inside it (followed by   *)
(* plain text); toks, marker and comment are what the scanner reads.       *)
(***************************************************************************)
EXTENDS Integers, Sequences, FiniteSets, TLC

VARIABLES parser, agg, reg, eng, checker, hook, mode

vars == <<parser, agg, reg, eng, checker, hook, mode>>

None == "None"

\* ---------------------------------------------------------------- bounds
MaxLines == 4
MaxRaw == 3
MaxCalls == 3
MaxScanLines == 4
MaxOrderLines == 5
MaxCallLines == 4
MaxSupLines == 3
MaxHookLines == 2
MaxHookCalls == 3
MaxIgnoreLines == 4
MaxRepeatLines == 2

\* ------------------------------------------------------- line contents
\* The content of an added line: the tokens a pattern can match, left to
\* right, and the trailing suppression comment if there is one (marker:
\* present, scoped = it carries an [IDS] list, ids = the list; comment =
\* the whole line is a comment).
NoMarker == [present |-> FALSE, scoped |-> FALSE, ids |-> {}]
AllMarker == [present |-> TRUE, scoped |-> FALSE, ids |-> {}]
Content(toks, marker, comment) ==
    [toks |-> toks, marker |-> marker, comment |-> comment,
     bom |-> 0, cr |-> FALSE, inner |-> FALSE]

\* Plain text, and the empty content of the header lines.
PlainContent == Content(<<"c">>, NoMarker, FALSE)
NoContent == Content(<<>>, NoMarker, FALSE)

\* ------------------------------------------------------------ diff lines

DiffGitLine(p) == [k |-> "diff", first |-> "d", path |-> p, start |-> 0, content |-> NoContent]
SubHeaderLine(kind) == [k |-> kind, first |-> "h", path |-> None, start |-> 0, content |-> NoContent]
RenameLine(kind, p) == [k |-> kind, first |-> "r", path |-> p, start |-> 0, content |-> NoContent]
FileHeaderLine(kind, ch) == [k |-> kind, first |-> ch, path |-> None, start |-> 0, content |-> NoContent]
HunkLine(c) == [k |-> "hunk", first |-> "@", path |-> None, start |-> c, content |-> NoContent]
SubprojectLine(ch) == [k |-> "subproject", first |-> ch, path |-> None, start |-> 0, content |-> NoContent]
NoNewlineLine == [k |-> "no_newline", first |-> "\\", path |-> None, start |-> 0, content |-> NoContent]
TextLine(ch, c) == [k |-> "text", first |-> ch, path |-> None, start |-> 0, content |-> c]

\* The regular expressions of diff_parser.py, as predicates on a line.
DIFF_HEADER_RE(l) == l.k = "diff"
HUNK_HEADER_RE(l) == l.k = "hunk"
BINARY_RE(l) == l.k = "binary"
RENAME_FROM_RE(l) == l.k = "rename_from"
RENAME_TO_RE(l) == l.k = "rename_to"
SUBPROJECT_RE(l) == l.k = "subproject"
NO_NEWLINE_RE(l) == l.k = "no_newline"
FILE_HEADER_OLD(l) == l.k = "hdr_old"
FILE_HEADER_NEW(l) == l.k = "hdr_new"
SIMILARITY_RE(l) == l.k = "similarity"
OLD_MODE_RE(l) == l.k = "old_mode"
NEW_MODE_RE(l) == l.k = "new_mode"
DELETED_FILE_RE(l) == l.k = "deleted_file"
NEW_FILE_RE(l) == l.k = "new_file"
INDEX_RE(l) == l.k = "index"

startswith(l, ch) == l.first = ch

\* --------------------------------------------------------- parser events
DiffFile(p, old, st) == [type |-> "DiffFile", path |-> p, old_path |-> old, status |-> st]
FileSkipped(p, r) == [type |-> "FileSkipped", path |-> p, reason |-> r]
DiffLine(f, n, c) == [type |-> "DiffLine", file |-> f, line_no |-> n, content |-> c, line_type |-> "added"]

\* _strip_bom: line.lstrip("\ufeff") removes every leading U+FEFF.
strip_bom(c) == [c EXCEPT !.bom = 0]

\* str.splitlines of DiffParser.__init__.  The text is the sequence of its
\* LF-terminated lines; a CR directly before the LF goes with the line
\* boundary, a CR inside a line is a line boundary of its own.
RECURSIVE splitlines(_)
splitlines(text) ==
    IF text = <<>> THEN <<>>
    ELSE LET l == Head(text)
         IN  IF l.k # "text" THEN <<l>> \o splitlines(Tail(text))
             ELSE IF l.content.inner
                  THEN <<[l EXCEPT !.content.inner = FALSE, !.content.cr = FALSE],
                         TextLine("c", PlainContent)>> \o splitlines(Tail(text))
             ELSE <<[l EXCEPT !.content.cr = FALSE]>> \o splitlines(Tail(text))

\* ----------------------------------------------------------- DiffParser
\* Locals of DiffParser.parse at the top of its main loop; yielded is what
\* the generator has produced so far.  idx counts from 0 as in the source.
ParserStart(text) ==
    [diff_text |-> text, lines |-> splitlines(text), idx |-> 0, current_file |-> None, old_file |-> None,
     line_no |-> 0, is_rename |-> FALSE, is_mode_only |-> FALSE,
     is_deleted |-> FALSE, is_binary |-> FALSE, hunk_remaining |-> 0,
     hunk_buffer |-> <<>>, yielded |-> <<>>, done |-> FALSE]

total(ps) == Len(ps.lines)
LineAt(ps, i) == ps.lines[i + 1]

RECURSIVE has_hunks_ahead(_, _)
has_hunks_ahead(ps, i) ==
    IF i >= total(ps) THEN FALSE
    ELSE IF DIFF_HEADER_RE(LineAt(ps, i)) THEN FALSE
    ELSE IF HUNK_HEADER_RE(LineAt(ps, i)) THEN TRUE
    ELSE has_hunks_ahead(ps, i + 1)

\* The sub-header loop that follows a 'diff --git' line.
RECURSIVE SubHeaders(_)
SubHeaders(ps) ==
    IF ps.idx >= total(ps) THEN ps
    ELSE LET sub == LineAt(ps, ps.idx)
             nxt == [ps EXCEPT !.idx = ps.idx + 1]
         IN  IF INDEX_RE(sub) THEN SubHeaders(nxt)
             ELSE IF SIMILARITY_RE(sub) THEN SubHeaders(nxt)
             ELSE IF OLD_MODE_RE(sub) THEN SubHeaders([nxt EXCEPT !.is_mode_only = TRUE])
             ELSE IF NEW_MODE_RE(sub) THEN SubHeaders(nxt)
             ELSE IF DELETED_FILE_RE(sub) THEN SubHeaders([nxt EXCEPT !.is_deleted = TRUE])
             ELSE IF NEW_FILE_RE(sub) THEN SubHeaders(nxt)
             ELSE IF RENAME_FROM_RE(sub)
                  THEN SubHeaders([nxt EXCEPT !.old_file = sub.path, !.is_rename = TRUE])
             ELSE IF RENAME_TO_RE(sub) THEN SubHeaders([nxt EXCEPT !.current_file = sub.path])
             ELSE IF BINARY_RE(sub) THEN SubHeaders([nxt EXCEPT !.is_binary = TRUE])
             ELSE ps

\* The status without the rename case.
FileStatusNoRename(ps) ==
    IF ps.is_deleted THEN "deleted" ELSE "modified"

\* The status of the DiffFile: deleted wins over renamed.
FileStatusOf(ps) ==
    IF ps.is_deleted THEN "deleted"
    ELSE IF ps.is_rename THEN "renamed" ELSE "modified"

\* EmitMetadata without the look-ahead for a hunk header.
EmitMetadataNoLookahead(ps) ==
    IF ps.is_binary THEN FileSkipped(ps.current_file, "binary")
    ELSE IF ps.is_mode_only THEN FileSkipped(ps.current_file, "mode_only")
    ELSE DiffFile(ps.current_file,
                  IF ps.is_rename THEN ps.old_file ELSE None,
                  FileStatusOf(ps))

\* The event yielded once the sub-headers of a file block are consumed.
EmitMetadata(ps) ==
    IF ps.is_binary THEN FileSkipped(ps.current_file, "binary")
    ELSE IF ps.is_mode_only /\ ~has_hunks_ahead(ps, ps.idx)
         THEN FileSkipped(ps.current_file, "mode_only")
    ELSE DiffFile(ps.current_file,
                  IF ps.is_rename THEN ps.old_file ELSE None,
                  FileStatusOf(ps))

\* The 'diff --git' branch with the buffer flushed after the file event.
DiffHeaderStepLateFlush(ps) ==
    LET l == LineAt(ps, ps.idx)
        reset == [ps EXCEPT !.hunk_buffer = <<>>,
                            !.old_file = l.path, !.current_file = l.path,
                            !.is_rename = FALSE, !.is_mode_only = FALSE,
                            !.is_deleted = FALSE, !.is_binary = FALSE,
                            !.hunk_remaining = 0, !.idx = ps.idx + 1]
        swept == SubHeaders(reset)
    IN  [swept EXCEPT !.yielded = Append(swept.yielded, EmitMetadata(swept)) \o ps.hunk_buffer]

\* 'diff --git' branch: flush the buffer, reset the flags, sweep the
\* sub-headers, yield the file event.
DiffHeaderStep(ps) ==
    LET l == LineAt(ps, ps.idx)
        reset == [ps EXCEPT !.yielded = ps.yielded \o ps.hunk_buffer,
                            !.hunk_buffer = <<>>,
                            !.old_file = l.path, !.current_file = l.path,
                            !.is_rename = FALSE, !.is_mode_only = FALSE,
                            !.is_deleted = FALSE, !.is_binary = FALSE,
                            !.hunk_remaining = 0, !.idx = ps.idx + 1]
        swept == SubHeaders(reset)
    IN  [swept EXCEPT !.yielded = Append(swept.yielded, EmitMetadata(swept))]

\* A skipped line whose branch continues without 'idx += 1'.
SkipLineStepNoAdvance(ps) == ps

SkipLineStep(ps) == [ps EXCEPT !.idx = ps.idx + 1]

HunkHeaderStep(ps) ==
    [ps EXCEPT !.yielded = ps.yielded \o ps.hunk_buffer, !.hunk_buffer = <<>>,
               !.line_no = LineAt(ps, ps.idx).start, !.idx = ps.idx + 1]

ContentStep(ps) ==
    LET raw_line == LineAt(ps, ps.idx)
        nxt == [ps EXCEPT !.idx = ps.idx + 1]
    IN  IF ps.current_file = None THEN nxt
        ELSE IF startswith(raw_line, "+")
             THEN [nxt EXCEPT !.hunk_buffer =
                                 Append(ps.hunk_buffer,
                                        DiffLine(ps.current_file, ps.line_no,
                                                 strip_bom(raw_line.content))),
                              !.line_no = ps.line_no + 1]
        ELSE IF startswith(raw_line, "-") THEN nxt
        ELSE IF startswith(raw_line, " ") THEN [nxt EXCEPT !.line_no = ps.line_no + 1]
        ELSE nxt

FlushStep(ps) ==
    [ps EXCEPT !.yielded = ps.yielded \o ps.hunk_buffer, !.done = TRUE]

\* Which branch of the main loop the next iteration takes.
Branch(ps) ==
    IF ps.idx >= total(ps) THEN "flush"
    ELSE LET raw_line == LineAt(ps, ps.idx)
         IN  IF DIFF_HEADER_RE(raw_line) THEN "diff"
             ELSE IF FILE_HEADER_OLD(raw_line) \/ FILE_HEADER_NEW(raw_line) THEN "file_header"
             ELSE IF HUNK_HEADER_RE(raw_line) THEN "hunk"
             ELSE IF SUBPROJECT_RE(raw_line) THEN "subproject"
             ELSE IF NO_NEWLINE_RE(raw_line) THEN "no_newline"
             ELSE "content"

ParseStep(ps) ==
    CASE Branch(ps) = "flush" -> FlushStep(ps)
      [] Branch(ps) = "diff" -> DiffHeaderStep(ps)
      [] Branch(ps) = "hunk" -> HunkHeaderStep(ps)
      [] Branch(ps) = "content" -> ContentStep(ps)
      [] OTHER -> SkipLineStep(ps)

\* list(parser.parse()): the generator run to exhaustion.
RECURSIVE parse(_)
parse(ps) == IF ps.done THEN ps.yielded ELSE parse(ParseStep(ps))

\* ------------------------------------------------------------ aggregator
Severities == {"low", "medium", "high", "critical"}

\* SEVERITY_ORDER.get(sev, 0)
SEVERITY_ORDER(sev) ==
    CASE sev = "low" -> 0
      [] sev = "medium" -> 1
      [] sev = "high" -> 2
      [] sev = "critical" -> 3
      [] OTHER -> 0

severity_at_or_above(finding_sev, threshold) ==
    SEVERITY_ORDER(finding_sev) >= SEVERITY_ORDER(threshold)

\* RawFinding; rule_name, category, description and commit are carried
\* through unread and are left out.
RawFinding(rule_id, severity, file, line_no, matched_value, detection_method, entropy_value) ==
    [rule_id |-> rule_id, severity |-> severity, file |-> file, line_no |-> line_no,
     matched_value |-> matched_value, detection_method |-> detection_method,
     entropy_value |-> entropy_value]

KeyOf(f) == <<f.rule_id, f.file, f.line_no>>

\* f"FINDING-{counter:03d}"
FindingId(counter) ==
    <<"FINDING-", counter \div 100, (counter \div 10) % 10, counter % 10>>

Contains(seq, x) == \E i \in 1..Len(seq) : seq[i] = x

\* Locals of deduplicate; merged is the dict in insertion order, i the
\* number of raw findings consumed.  error is the exception that ended
\* the call, calls and previous count the calls of one caller and keep
\* what the call before returned.
DedupStart(raw_findings, fail_on) ==
    [raw_findings |-> raw_findings, fail_on |-> fail_on, merged |-> <<>>,
     counter |-> 0, i |-> 0, returned |-> FALSE, error |-> None,
     calls |-> 1, previous |-> <<>>]

\* raw.detection_method exists: raw is a RawFinding, not a Finding.
HasDetectionMethod(raw) == "detection_method" \in DOMAIN raw

\* The read of raw.detection_method on an object without that attribute.
DedupRaiseStep(st) == [st EXCEPT !.error = "AttributeError"]

KeyInMerged(st) ==
    \E j \in 1..Len(st.merged) : KeyOf(st.merged[j]) = KeyOf(st.raw_findings[st.i + 1])

\* The merge that takes the severity of the latest raw finding.
DedupMergeStepLatestSeverity(st) ==
    LET raw == st.raw_findings[st.i + 1]
        j == CHOOSE k \in 1..Len(st.merged) : KeyOf(st.merged[k]) = KeyOf(raw)
        existing == st.merged[j]
        upd == [existing EXCEPT
                  !.detection_methods =
                      IF Contains(@, raw.detection_method) THEN @
                      ELSE Append(@, raw.detection_method),
                  !.severity = raw.severity,
                  !.entropy_value =
                      IF raw.entropy_value # None THEN raw.entropy_value ELSE @]
    IN  [st EXCEPT !.merged[j] = upd, !.i = st.i + 1]

\* if key in merged: add the detection method, keep the highest severity.
DedupMergeStep(st) ==
    LET raw == st.raw_findings[st.i + 1]
        j == CHOOSE k \in 1..Len(st.merged) : KeyOf(st.merged[k]) = KeyOf(raw)
        existing == st.merged[j]
        upd == [existing EXCEPT
                  !.detection_methods =
                      IF Contains(@, raw.detection_method) THEN @
                      ELSE Append(@, raw.detection_method),
                  !.severity =
                      IF SEVERITY_ORDER(raw.severity) > SEVERITY_ORDER(@)
                      THEN raw.severity ELSE @,
                  !.entropy_value =
                      IF raw.entropy_value # None THEN raw.entropy_value ELSE @]
    IN  [st EXCEPT !.merged[j] = upd, !.i = st.i + 1]

\* The creation that numbers a finding by its position in the input.
DedupCreateStepIdByPosition(st) ==
    LET raw == st.raw_findings[st.i + 1]
        finding == [id |-> FindingId(st.i + 1), rule_id |-> raw.rule_id,
                    severity |-> raw.severity, file |-> raw.file,
                    line_no |-> raw.line_no, matched_value |-> raw.matched_value,
                    detection_methods |-> <<raw.detection_method>>,
                    entropy_value |-> raw.entropy_value,
                    is_blocking |-> severity_at_or_above(raw.severity, st.fail_on)]
    IN  [st EXCEPT !.merged = Append(st.merged, finding),
                   !.counter = st.counter + 1, !.i = st.i + 1]

\* else: a new Finding with the next id; is_blocking is set here.
DedupCreateStep(st) ==
    LET raw == st.raw_findings[st.i + 1]
        finding == [id |-> FindingId(st.counter + 1), rule_id |-> raw.rule_id,
                    severity |-> raw.severity, file |-> raw.file,
                    line_no |-> raw.line_no, matched_value |-> raw.matched_value,
                    detection_methods |-> <<raw.detection_method>>,
                    entropy_value |-> raw.entropy_value,
                    is_blocking |-> severity_at_or_above(raw.severity, st.fail_on)]
    IN  [st EXCEPT !.merged = Append(st.merged, finding),
                   !.counter = st.counter + 1, !.i = st.i + 1]

DedupStep(st) ==
    IF st.i >= Len(st.raw_findings) THEN [st EXCEPT !.returned = TRUE]
    ELSE IF ~HasDetectionMethod(st.raw_findings[st.i + 1]) THEN DedupRaiseStep(st)
    ELSE IF KeyInMerged(st) THEN DedupMergeStep(st)
    ELSE DedupCreateStep(st)

RECURSIVE DedupLoop(_)
DedupLoop(st) ==
    IF st.returned \/ st.error # None THEN st.merged ELSE DedupLoop(DedupStep(st))

\* The caller passes the list deduplicate returned to deduplicate again.
DedupAgainStart(st) ==
    [DedupStart(st.merged, st.fail_on) EXCEPT !.calls = st.calls + 1,
                                              !.previous = st.merged]

deduplicate(raw_findings, fail_on) == DedupLoop(DedupStart(raw_findings, fail_on))

AggIdle == DedupStart(<<>>, "high")

\* --------------------------------------------------------- rule registry
\* Rules of ALL_BUILTIN_RULES that the model carries, in list order, and
\* one rule a .gitsafe-rules directory may add.  kind is the detection
\* style: "content" has a pattern, "file" has file_patterns only,
\* "entropy" has min_entropy and no pattern.
BuiltinIds == <<"AWS_ACCESS_KEY", "HARDCODED_PASSWORD", "ENV_FILE", "HIGH_ENTROPY_STRING">>
CustomIds == <<"CUSTOM_1">>

RuleSeverity(id) ==
    CASE id = "AWS_ACCESS_KEY" -> "critical"
      [] id = "HARDCODED_PASSWORD" -> "high"
      [] id = "ENV_FILE" -> "high"
      [] id = "HIGH_ENTROPY_STRING" -> "medium"
      [] OTHER -> "low"

RuleKind(id) ==
    CASE id = "ENV_FILE" -> "file"
      [] id = "HIGH_ENTROPY_STRING" -> "entropy"
      [] OTHER -> "content"

is_file_rule(id) == RuleKind(id) = "file"
is_entropy_rule(id) == RuleKind(id) = "entropy"

\* A Rule object: the module-level objects of the built-in rule modules
\* have owner 0, an object made by the n-th build_registry has owner n.
RuleObject(id, owner) == [rule |-> id, owner |-> owner]

SeqToSet(seq) == {seq[i] : i \in 1..Len(seq)}

\* Process state right after import: every built-in Rule has enabled=True
\* (the dataclass default) and no registry exists.  enabled maps each live
\* Rule object to its enabled attribute.
ProcessStart ==
    [enabled |-> [o \in {RuleObject(BuiltinIds[i], 0) : i \in 1..Len(BuiltinIds)} |-> TRUE],
     registries |-> <<>>,
     last |-> [op |-> "none", registry |-> 0, config |-> None],
     calls |-> 0]

\* RuleRegistry.enabled_rules / content_rules / file_rules, as rule ids in
\* registration order.
enabled_rules(st, r) ==
    LET objs == st.registries[r]
        on == SelectSeq(objs, LAMBDA o : st.enabled[o])
    IN  [i \in 1..Len(on) |-> on[i].rule]

content_rules(st, r) == SelectSeq(enabled_rules(st, r), LAMBDA id : ~is_file_rule(id))
file_rules(st, r) == SelectSeq(enabled_rules(st, r), LAMBDA id : is_file_rule(id))

\* RuleRegistry.apply_config on registry r.
apply_config(st, r, config) ==
    LET objs == SeqToSet(st.registries[r])
        after_enable(o) ==
            IF config.enable # {} THEN o.rule \in config.enable ELSE st.enabled[o]
        after_disable(o) ==
            IF o.rule \in config.disable \/ o.rule \in config.ignore_rules
            THEN FALSE ELSE after_enable(o)
    IN  [st EXCEPT !.enabled = [o \in DOMAIN st.enabled |->
                                   IF o \in objs THEN after_disable(o) ELSE st.enabled[o]]]

\* build_registry: register the built-in objects themselves, load fresh
\* custom rules when the repository has them, apply the config.
build_registry(st, config, has_custom) ==
    LET n == Len(st.registries) + 1
        builtin == [i \in 1..Len(BuiltinIds) |-> RuleObject(BuiltinIds[i], 0)]
        custom == IF has_custom
                  THEN [i \in 1..Len(CustomIds) |-> RuleObject(CustomIds[i], n)]
                  ELSE <<>>
        loaded == [st EXCEPT
                     !.registries = Append(st.registries, builtin \o custom),
                     !.enabled = [o \in DOMAIN st.enabled \cup SeqToSet(custom) |->
                                     IF o \in DOMAIN st.enabled THEN st.enabled[o] ELSE TRUE]]
    IN  apply_config(loaded, n, config)

\* ------------------------------------------------------ pattern matching
\* rule.compiled_pattern.search(line_content): which tokens the pattern of
\* a content rule matches.
PatternMatches(id, tok) ==
    \/ id = "AWS_ACCESS_KEY" /\ tok \in {"AKIA1", "AKIA2", "AKIAEXAMPLE"}
    \/ id = "HARDCODED_PASSWORD" /\ tok = "pw1"
    \/ id = "CUSTOM_1" /\ tok \in {"hex1", "alt1"}

HasMatch(id, content) == \E i \in 1..Len(content.toks) : PatternMatches(id, content.toks[i])

\* The leftmost match of the pattern in the line.
FirstMatch(id, content) ==
    content.toks[CHOOSE i \in 1..Len(content.toks) :
                    /\ PatternMatches(id, content.toks[i])
                    /\ \A j \in 1..i - 1 : ~PatternMatches(id, content.toks[j])]

\* The matched value: m.group("secret") when the pattern has that group,
\* else m.group(0).  The custom pattern is (?P<secret>hex\d)|alt\d: on
\* "alt1" the group takes no part in the match and its value is None.
search(id, content) ==
    IF id = "CUSTOM_1" /\ FirstMatch(id, content) = "alt1" THEN None
    ELSE FirstMatch(id, content)

\* _match_rule_allowlist: the rule's own allowlist_patterns.
match_rule_allowlist(text, id) ==
    \/ id = "AWS_ACCESS_KEY" /\ text = "AKIAEXAMPLE"
    \/ id = "ENV_FILE" /\ text = ".env.example"

\* One pattern of config.allowlist.patterns searched in a matched value.
AllowPatternMatches(pat, text) ==
    \/ pat = "akia" /\ text \in {"AKIA1", "AKIA2", "AKIAEXAMPLE"}
    \/ pat = "hex" /\ text \in {"hex1", "hex2"}
    \/ pat = "pw" /\ text = "pw1"

\* re.compile(p) of an allowlist pattern: "[" is not a regular expression.
compiles(pat) == pat # "["

match_global_allowlist(text, patterns) == \E pat \in patterns : AllowPatternMatches(pat, text)

\* find_high_entropy: the tokens long and random enough, in line order.
find_high_entropy(content) == SelectSeq(content.toks, LAMBDA tok : tok \in {"hex1", "hex2"})
EntropyOf(tok) == "4.5"

\* fnmatch over the paths and globs of the model.
fnmatch(name, pat) ==
    CASE pat = "*" -> TRUE
      [] pat = "*.env" -> name \in {".env", "conf/.env"}
      [] pat = ".env.*" -> name = ".env.example"
      [] pat = "conf/*" -> name = "conf/.env"
      [] OTHER -> name = pat

\* Path(filepath).name
Basename(filepath) == IF filepath = "conf/.env" THEN ".env" ELSE filepath

file_patterns(id) == IF id = "ENV_FILE" THEN <<".env", ".env.*", "*.env">> ELSE <<>>

\* ---------------------------------------------------------- suppression
\* parse_inline_suppression: (is_suppressed, rule_ids); rule_ids is None
\* for a marker without a list.
parse_inline_suppression(content) ==
    IF ~content.marker.present THEN [is_suppressed |-> FALSE, all |-> TRUE, ids |-> {}]
    ELSE IF content.marker.scoped
         THEN [is_suppressed |-> TRUE, all |-> FALSE, ids |-> content.marker.ids]
    ELSE [is_suppressed |-> TRUE, all |-> TRUE, ids |-> {}]

is_pure_comment(content) == content.comment

\* SuppressionChecker.register_lines: lines is a sequence of <<line_no,
\* content>>; the result maps line numbers to (suppress_all, specific ids),
\* all = TRUE standing for specific ids = None.
\* One iteration of the loop of register_lines on the pair line.
RegisterLine(mapping, prev, line) ==
    LET line_no == line[1]
        content == line[2]
        sup == parse_inline_suppression(content)
        entry == [all |-> sup.all, ids |-> sup.ids]
        put(e) == [n \in DOMAIN mapping \cup {line_no} |->
                      IF n = line_no THEN e ELSE mapping[n]]
    IN  IF sup.is_suppressed
        THEN [mapping |-> put(entry),
              prev |-> IF is_pure_comment(content) THEN <<entry>> ELSE <<>>]
        ELSE [mapping |-> IF prev # <<>> THEN put(prev[1]) ELSE mapping, prev |-> <<>>]

RECURSIVE RegisterLoop(_, _, _, _)
RegisterLoop(lines, i, mapping, prev) ==
    IF i > Len(lines) THEN mapping
    ELSE LET nxt == RegisterLine(mapping, prev, lines[i])
         IN  RegisterLoop(lines, i + 1, nxt.mapping, nxt.prev)

register_lines(lines) == RegisterLoop(lines, 1, <<>>, <<>>)

\* A SuppressionChecker while register_lines(file, lines) runs (i lines
\* consumed) and after it has stored the mapping; result is what the last
\* is_suppressed call returned.
CheckerStart(file, lines) ==
    [file |-> file, lines |-> lines, i |-> 0, mapping |-> <<>>, prev |-> <<>>,
     line_suppressions |-> [f \in {} |-> <<>>], status |-> "registering",
     asked |-> <<>>, result |-> <<>>]

RegisterStep(st) ==
    LET nxt == RegisterLine(st.mapping, st.prev, st.lines[st.i + 1])
    IN  [st EXCEPT !.mapping = nxt.mapping, !.prev = nxt.prev, !.i = st.i + 1]

RegisterStore(st) ==
    [st EXCEPT !.line_suppressions = [f \in {st.file} |-> st.mapping],
               !.status = "registered"]

CheckerIdle == CheckerStart("x", <<>>)

Suppression(rule_id, file, line_no, source) ==
    [rule_id |-> rule_id, file |-> file, line_no |-> line_no,
     reason |-> "inline", source |-> source]

\* is_suppressed without the test of the id list.
is_suppressed_unscoped(line_suppressions, file, line_no, rule_id) ==
    IF file \notin DOMAIN line_suppressions THEN <<>>
    ELSE IF line_no \notin DOMAIN line_suppressions[file] THEN <<>>
    ELSE <<Suppression(rule_id, file, line_no, <<"#gitsafe-ignore">>)>>

\* SuppressionChecker.is_suppressed: <<record>> or <<>> for None.
is_suppressed(line_suppressions, file, line_no, rule_id) ==
    IF file \notin DOMAIN line_suppressions THEN <<>>
    ELSE IF line_no \notin DOMAIN line_suppressions[file] THEN <<>>
    ELSE LET entry == line_suppressions[file][line_no]
         IN  IF entry.all THEN <<Suppression(rule_id, file, line_no, <<"#gitsafe-ignore">>)>>
             ELSE IF rule_id \in entry.ids
                  THEN <<Suppression(rule_id, file, line_no,
                                     <<"#gitsafe-ignore[", rule_id, "]">>)>>
             ELSE <<>>

\* GitSafeIgnore.is_ignored; rule_id = None for the call without a rule.
is_ignored(ignorefile, filepath, rule_id) ==
    \/ \E pat \in ignorefile.global_patterns : fnmatch(filepath, pat)
    \/ /\ rule_id # None
       /\ \E e \in ignorefile.rule_patterns : e[1] = rule_id /\ fnmatch(filepath, e[2])

NoIgnoreFile == [global_patterns |-> {}, rule_patterns |-> {}]

\* ----------------------------------------------------------- scan engine
\* GitSafeConfig: the sections scan and build_registry read.  max_findings
\* is [set, n]: set = FALSE stands for None.
NoLimit == [set |-> FALSE, n |-> 0]
Limit(n) == [set |-> TRUE, n |-> n]

GitSafeConfig(enable, disable, ignore_rules, ignore_globs, allowlist, early_exit, max_findings, fail_on, entropy_enabled) ==
    [enable |-> enable, disable |-> disable, ignore_rules |-> ignore_rules,
     ignore_globs |-> ignore_globs, allowlist |-> allowlist, early_exit |-> early_exit,
     max_findings |-> max_findings, fail_on |-> fail_on,
     entropy_enabled |-> entropy_enabled]

\* Preparation: the added lines of each file, in event order.
file_lines(diff_items) ==
    LET added == SelectSeq(diff_items, LAMBDA e : e.type = "DiffLine")
        files == {added[i].file : i \in 1..Len(added)}
        of(f) == SelectSeq(added, LAMBDA e : e.file = f)
    IN  [f \in files |-> [i \in 1..Len(of(f)) |-> <<of(f)[i].line_no, of(f)[i].content>>]]

\* The exception a call of scan ends with, if any.
NoError == [type |-> None, message |-> <<>>]

\* ScanError(f"Internal scanner error after {raw_findings_count} findings.
\* Secrets have been scrubbed from this error.")
ScanError(raw_findings_count) ==
    [type |-> "ScanError",
     message |-> <<"Internal scanner error after ", ToString(raw_findings_count),
                   " findings. Secrets have been scrubbed from this error.">>]

\* The frame of scan when it is entered: its arguments and empty locals.
ScanCall(diff_text, config, ignorefile) ==
    [diff_text |-> diff_text, config |-> config, ignorefile |-> ignorefile,
     diff_items |-> <<>>, line_suppressions |-> <<>>,
     content_rules |-> <<>>, file_rules |-> <<>>,
     k |-> 0, raw_findings |-> <<>>, suppressions |-> <<>>, skipped_files |-> <<>>,
     scanned_files_set |-> {}, ignored_files_set |-> {},
     status |-> "called", findings |-> <<>>, blocked |-> FALSE,
     error |-> NoError, calls |-> 1, previous |-> <<>>]

\* scan up to the main loop.  k counts the items of diff_items consumed;
\* status is "loop" until the loop ends, then "returned", or "raised" when
\* an exception leaves scan.  The preparation is outside the try block: an
\* allowlist pattern that does not compile raises re.error to the caller.
ScanStart(diff_text, config, rules, r, ignorefile) ==
    LET diff_items == parse(ParserStart(diff_text))
        buckets == file_lines(diff_items)
        frame == ScanCall(diff_text, config, ignorefile)
    IN  IF \E pat \in config.allowlist : ~compiles(pat)
        THEN [frame EXCEPT !.status = "raised",
                           !.error = [type |-> "re.error",
                                      message |-> <<"unterminated character set">>]]
        ELSE [frame EXCEPT
                !.diff_items = diff_items,
                !.line_suppressions = [f \in DOMAIN buckets |-> register_lines(buckets[f])],
                !.content_rules = content_rules(rules, r),
                !.file_rules = file_rules(rules, r),
                !.status = "loop"]

\* FileSkipped item.
ScanFileSkipped(st, item) ==
    [st EXCEPT !.skipped_files = Append(@, <<item.path, item.reason>>), !.k = st.k + 1]

\* File-pattern rules that emit one raw finding per matching glob.
RECURSIVE FileRuleLoopEveryGlob(_, _, _)
FileRuleLoopEveryGlob(rules, filepath, raw_findings) ==
    IF rules = <<>> THEN raw_findings
    ELSE LET rule == Head(rules)
             basename == Basename(filepath)
             pats == file_patterns(rule)
             hits == SelectSeq(pats, LAMBDA pat : fnmatch(basename, pat) \/ fnmatch(filepath, pat))
         IN  FileRuleLoopEveryGlob(Tail(rules), filepath,
                 IF ~match_rule_allowlist(basename, rule)
                 THEN raw_findings \o [i \in 1..Len(hits) |->
                                          RawFinding(rule, RuleSeverity(rule), filepath, 0,
                                                     basename, "file_pattern", None)]
                 ELSE raw_findings)

\* File-pattern rules on one path: per rule the first matching glob decides.
RECURSIVE FileRuleLoop(_, _, _)
FileRuleLoop(rules, filepath, raw_findings) ==
    IF rules = <<>> THEN raw_findings
    ELSE LET rule == Head(rules)
             basename == Basename(filepath)
             pats == file_patterns(rule)
             hit == \E i \in 1..Len(pats) : fnmatch(basename, pats[i]) \/ fnmatch(filepath, pats[i])
         IN  FileRuleLoop(Tail(rules), filepath,
                 IF hit /\ ~match_rule_allowlist(basename, rule)
                 THEN Append(raw_findings,
                             RawFinding(rule, RuleSeverity(rule), filepath, 0, basename,
                                        "file_pattern", None))
                 ELSE raw_findings)

\* DiffFile item.
ScanDiffFile(st, item) ==
    LET filepath == item.path
    IN  IF \E g \in st.config.ignore_globs : fnmatch(filepath, g)
        THEN [st EXCEPT !.skipped_files = Append(@, <<filepath, "ignored">>),
                        !.ignored_files_set = @ \cup {filepath}, !.k = st.k + 1]
        ELSE IF is_ignored(st.ignorefile, filepath, None)
        THEN [st EXCEPT !.skipped_files = Append(@, <<filepath, "gitsafeignore">>),
                        !.ignored_files_set = @ \cup {filepath}, !.k = st.k + 1]
        ELSE [st EXCEPT !.scanned_files_set = @ \cup {filepath},
                        !.raw_findings = FileRuleLoop(st.file_rules, filepath, @),
                        !.k = st.k + 1]

\* The regex rules on one added line, in registration order.
RECURSIVE RegexLoop(_, _, _)
RegexLoop(st, item, rules) ==
    IF rules = <<>> THEN st
    ELSE LET rule == Head(rules)
             rest == Tail(rules)
         IN  IF is_entropy_rule(rule) THEN RegexLoop(st, item, rest)
             ELSE IF ~HasMatch(rule, item.content) THEN RegexLoop(st, item, rest)
             ELSE LET matched == search(rule, item.content)
                      sup == is_suppressed(st.line_suppressions, item.file, item.line_no, rule)
                  IN  IF matched = None /\ st.config.allowlist # {}
                      THEN [st EXCEPT !.status = "raising"]
                      ELSE IF match_rule_allowlist(matched, rule) THEN RegexLoop(st, item, rest)
                      ELSE IF match_global_allowlist(matched, st.config.allowlist)
                           THEN RegexLoop(st, item, rest)
                      ELSE IF is_ignored(st.ignorefile, item.file, rule)
                           THEN RegexLoop(st, item, rest)
                      ELSE IF sup # <<>>
                           THEN RegexLoop([st EXCEPT !.suppressions = @ \o sup], item, rest)
                      ELSE LET found == [st EXCEPT !.raw_findings =
                                           Append(@, RawFinding(rule, RuleSeverity(rule),
                                                                item.file, item.line_no,
                                                                matched, "regex", None))]
                           IN  IF st.config.early_exit /\ RuleSeverity(rule) = "critical"
                               THEN found
                               ELSE RegexLoop(found, item, rest)

\* The entropy candidates of one added line.
RECURSIVE EntropyLoop(_, _, _)
EntropyLoop(st, item, hits) ==
    IF hits = <<>> THEN st
    ELSE LET candidate == Head(hits)
             sup == is_suppressed(st.line_suppressions, item.file, item.line_no,
                                  "HIGH_ENTROPY_STRING")
         IN  IF match_global_allowlist(candidate, st.config.allowlist)
             THEN EntropyLoop(st, item, Tail(hits))
             ELSE IF is_ignored(st.ignorefile, item.file, "HIGH_ENTROPY_STRING")
                  THEN EntropyLoop(st, item, Tail(hits))
             ELSE IF sup # <<>>
                  THEN EntropyLoop([st EXCEPT !.suppressions = @ \o sup], item, Tail(hits))
             ELSE EntropyLoop([st EXCEPT !.raw_findings =
                                  Append(@, RawFinding("HIGH_ENTROPY_STRING", "medium",
                                                       item.file, item.line_no, candidate,
                                                       "entropy", EntropyOf(candidate)))],
                              item, Tail(hits))

\* except Exception: count and clear the raw findings, raise ScanError.
ExceptHandlerLeaky(st) ==
    [st EXCEPT !.raw_findings = <<>>, !.status = "raised",
               !.error = [ScanError(Len(st.raw_findings)) EXCEPT
                             !.message = @ \o [i \in 1..Len(st.raw_findings) |->
                                                  st.raw_findings[i].matched_value]]]

ExceptHandler(st) ==
    [st EXCEPT !.raw_findings = <<>>, !.status = "raised",
               !.error = ScanError(Len(st.raw_findings))]

\* A loop body without the circuit breaker.
CircuitBreakerOff(st) == st

\* The circuit breaker at the end of the loop body: break leaves the loop.
CircuitBreaker(st) ==
    IF st.config.max_findings.set /\ Len(st.raw_findings) >= st.config.max_findings.n
    THEN [st EXCEPT !.k = Len(st.diff_items)]
    ELSE st

\* DiffLine item.
ScanDiffLine(st, item) ==
    IF item.file \in st.ignored_files_set THEN [st EXCEPT !.k = st.k + 1]
    ELSE LET marked == [st EXCEPT !.scanned_files_set = @ \cup {item.file}, !.k = st.k + 1]
             regexed == RegexLoop(marked, item, st.content_rules)
             scored == IF st.config.entropy_enabled
                       THEN EntropyLoop(regexed, item, find_high_entropy(item.content))
                       ELSE regexed
         IN  IF regexed.status = "raising" THEN ExceptHandler(regexed)
             ELSE CircuitBreaker(scored)

\* The return with finding ids that count on from the previous call.
ScanReturnSharedCounter(st) ==
    LET deduped == deduplicate(st.raw_findings, st.config.fail_on)
        base == IF st.previous = <<>> THEN 0 ELSE Len(st.previous[1].findings)
        findings == [i \in 1..Len(deduped) |-> [deduped[i] EXCEPT !.id = FindingId(base + i)]]
    IN  [st EXCEPT !.findings = findings,
                   !.blocked = \E i \in 1..Len(findings) : findings[i].is_blocking,
                   !.status = "returned"]

\* After the loop: dedup, severity gate, return.
ScanReturn(st) ==
    LET findings == deduplicate(st.raw_findings, st.config.fail_on)
    IN  [st EXCEPT !.findings = findings,
                   !.blocked = \E i \in 1..Len(findings) : findings[i].is_blocking,
                   !.status = "returned"]

ScanStep(st) ==
    IF st.k >= Len(st.diff_items) THEN ScanReturn(st)
    ELSE LET item == st.diff_items[st.k + 1]
         IN  CASE item.type = "FileSkipped" -> ScanFileSkipped(st, item)
               [] item.type = "DiffFile" -> ScanDiffFile(st, item)
               [] OTHER -> ScanDiffLine(st, item)

RECURSIVE ScanLoop(_)
ScanLoop(st) == IF st.status \in {"returned", "raised"} THEN st ELSE ScanLoop(ScanStep(st))

\* scan(diff_text, config, registry, repo_root): the ScanResult fields.
scan(diff_text, config, rules, r, ignorefile) ==
    ScanLoop(ScanStart(diff_text, config, rules, r, ignorefile))

DefaultConfig == GitSafeConfig({}, {}, {}, {}, {}, FALSE, NoLimit, "high", TRUE)

EngIdle ==
    ScanStart(<<>>, DefaultConfig, build_registry(ProcessStart, DefaultConfig, FALSE), 1,
              NoIgnoreFile)

\* ------------------------------------------------------ hook installer
\* A repository directory as install_hook and uninstall_hook see it: git
\* = .git is a directory, hooks = .git/hooks exists, file = the pre-commit
\* file (Absent, or its lines and whether it is executable).  A line is a
\* token; MarkerInLine says which tokens contain _HOOK_MARKER as a substring.
Absent == [exists |-> FALSE, lines |-> <<>>, executable |-> FALSE]
HookFile(lines, executable) == [exists |-> TRUE, lines |-> lines, executable |-> executable]

HOOK_MARKER == "# gitsafe-hook"
HOOK_SCRIPT == <<"#!/bin/sh", HOOK_MARKER, "# Installed by gitsafe", "exec gitsafe scan">>

MarkerInLine(line) == line \in {HOOK_MARKER, "run-hooks # gitsafe-hook, lint"}

\* _HOOK_MARKER in content
MarkerIn(file) == \E i \in 1..Len(file.lines) : MarkerInLine(file.lines[i])

Repo(git, hooks, file) == [git |-> git, hooks |-> hooks, file |-> file]

Outcome(repo, success, message) == [repo |-> repo, success |-> success, message |-> message]

\* install_hook that overwrites a hook of someone else without force.
install_hook_overwriting(repo, force, chmod_ok) ==
    IF ~repo.git THEN Outcome(repo, FALSE, "Not a git repository")
    ELSE LET made == [repo EXCEPT !.hooks = TRUE]
         IN  IF made.file.exists /\ MarkerIn(made.file)
             THEN Outcome(made, TRUE, "gitsafe hook is already installed.")
             ELSE Outcome([made EXCEPT !.file =
                              HookFile(HOOK_SCRIPT, IF chmod_ok THEN TRUE ELSE made.file.executable)],
                          TRUE, "Installed gitsafe pre-commit hook")

\* install_hook(repo_root, force=force); chmod_ok = chmod did not raise
\* OSError.
install_hook(repo, force, chmod_ok) ==
    IF ~repo.git THEN Outcome(repo, FALSE, "Not a git repository")
    ELSE LET made == [repo EXCEPT !.hooks = TRUE]
         IN  IF made.file.exists /\ MarkerIn(made.file)
             THEN Outcome(made, TRUE, "gitsafe hook is already installed.")
             ELSE IF made.file.exists /\ ~force
             THEN Outcome(made, FALSE, "A pre-commit hook already exists")
             ELSE Outcome([made EXCEPT !.file =
                              HookFile(HOOK_SCRIPT, IF chmod_ok THEN TRUE ELSE made.file.executable)],
                          TRUE, "Installed gitsafe pre-commit hook")

uninstall_hook(repo) ==
    IF ~repo.file.exists
    THEN Outcome(repo, TRUE, "No pre-commit hook found")
    ELSE IF ~MarkerIn(repo.file)
    THEN Outcome(repo, FALSE, "Pre-commit hook exists but was not installed by gitsafe.")
    ELSE Outcome([repo EXCEPT !.file = Absent], TRUE, "Removed gitsafe pre-commit hook")

\* The repository and the last call made on it (op, force, what it
\* returned), calls counting the calls.
HookState(repo, op, force, success, message, calls) ==
    [repo |-> repo, op |-> op, force |-> force, success |-> success,
     message |-> message, calls |-> calls]

HookStart(repo) == HookState(repo, "none", FALSE, TRUE, "", 0)

HookIdle == HookStart(Repo(FALSE, FALSE, Absent))

AfterCall(st, op, force, out) ==
    HookState(out.repo, op, force, out.success, out.message, st.calls + 1)

\* ------------------------------------------------- parser specification
Paths == {"x"}

ParseAlphabet ==
    {DiffGitLine(p) : p \in Paths}
    \cup {SubHeaderLine("old_mode"), SubHeaderLine("new_mode"), SubHeaderLine("binary")}
    \cup {FileHeaderLine("hdr_new", "+"), HunkLine(2), SubprojectLine("+"), NoNewlineLine}
    \cup {TextLine("+", PlainContent), TextLine("-", PlainContent), TextLine(" ", PlainContent)}

\* Lines of rename blocks: rename from o / rename to n and the sub-headers
\* that can come with them.
RenameAlphabet ==
    {DiffGitLine("x"), RenameLine("rename_from", "o"), RenameLine("rename_to", "n")}
    \cup {SubHeaderLine("old_mode"), SubHeaderLine("binary"),
          SubHeaderLine("deleted_file"), SubHeaderLine("similarity")}
    \cup {HunkLine(2), TextLine("+", PlainContent)}

\* Added lines with byte order marks and carriage returns.
WithBom(c, n) == [c EXCEPT !.bom = n]
WithCR(c) == [c EXCEPT !.cr = TRUE]
WithInnerCR(c) == [c EXCEPT !.inner = TRUE]

CharAlphabet ==
    {DiffGitLine("x"), HunkLine(2)}
    \cup {TextLine("+", PlainContent), TextLine("+", WithBom(PlainContent, 1)),
          TextLine("+", WithBom(PlainContent, 2)), TextLine("+", WithCR(PlainContent)),
          TextLine("+", WithInnerCR(PlainContent)),
          TextLine("+", WithCR(WithBom(PlainContent, 1)))}

\* Two files and two hunk starts, for the order of the event stream.
OrderAlphabet ==
    {DiffGitLine("x"), DiffGitLine("y"), HunkLine(1), HunkLine(2),
     TextLine("+", PlainContent), TextLine(" ", PlainContent)}

TextsOver(alphabet, n) == UNION {[1..m -> alphabet] : m \in 0..n}

\* The diff texts handed to DiffParser.
ParseTexts ==
    TextsOver(ParseAlphabet, MaxLines) \cup TextsOver(RenameAlphabet, MaxLines)
    \cup TextsOver(CharAlphabet, MaxLines) \cup TextsOver(OrderAlphabet, MaxOrderLines)

InitParse ==
    /\ mode = "parse"
    /\ hook = HookIdle
    /\ checker = CheckerIdle
    /\ agg = AggIdle
    /\ reg = ProcessStart
    /\ eng = EngIdle
    /\ \E text \in ParseTexts : parser = ParserStart(text)

ParseAt(b) == mode = "parse" /\ ~parser.done /\ Branch(parser) = b

ParseDiffHeader == ParseAt("diff") /\ parser' = DiffHeaderStep(parser) /\ UNCHANGED <<agg, reg, eng, checker, hook, mode>>
ParseFileHeader == ParseAt("file_header") /\ parser' = SkipLineStep(parser) /\ UNCHANGED <<agg, reg, eng, checker, hook, mode>>
ParseHunkHeader == ParseAt("hunk") /\ parser' = HunkHeaderStep(parser) /\ UNCHANGED <<agg, reg, eng, checker, hook, mode>>
ParseSubproject == ParseAt("subproject") /\ parser' = SkipLineStep(parser) /\ UNCHANGED <<agg, reg, eng, checker, hook, mode>>
ParseNoNewline == ParseAt("no_newline") /\ parser' = SkipLineStep(parser) /\ UNCHANGED <<agg, reg, eng, checker, hook, mode>>
ParseContent == ParseAt("content") /\ parser' = ContentStep(parser) /\ UNCHANGED <<agg, reg, eng, checker, hook, mode>>
ParseFlush == ParseAt("flush") /\ parser' = FlushStep(parser) /\ UNCHANGED <<agg, reg, eng, checker, hook, mode>>

NextParse ==
    \/ ParseDiffHeader
    \/ ParseFileHeader
    \/ ParseHunkHeader
    \/ ParseSubproject
    \/ ParseNoNewline
    \/ ParseContent
    \/ ParseFlush

SpecParse == InitParse /\ [][NextParse]_vars

\* list(parser.parse()) and the engine's for loop resume the generator until
\* it is exhausted: an iteration that can be taken is taken.
SpecParseRun == InitParse /\ [][NextParse]_vars /\ WF_vars(NextParse)

\* --------------------------------------------- aggregator specification
DedupKeys == {<<"AWS_ACCESS_KEY", "x", 1>>, <<"HIGH_ENTROPY_STRING", "x", 1>>}

DedupRaws ==
    {RawFinding(k[1], sev, k[2], k[3], "v", dm, IF dm = "entropy" THEN "4.5" ELSE None) :
        k \in DedupKeys, sev \in Severities, dm \in {"regex", "entropy"}}

InitDedup ==
    /\ mode = "dedup"
    /\ hook = HookIdle
    /\ checker = CheckerIdle
    /\ parser = ParserStart(<<>>)
    /\ reg = ProcessStart
    /\ eng = EngIdle
    /\ \E raws \in TextsOver(DedupRaws, MaxRaw), fail_on \in Severities :
          agg = DedupStart(raws, fail_on)

DedupAt == mode = "dedup" /\ ~agg.returned /\ agg.error = None

DedupItemAt ==
    /\ DedupAt /\ agg.i < Len(agg.raw_findings)
    /\ HasDetectionMethod(agg.raw_findings[agg.i + 1])

DedupMerge ==
    /\ DedupItemAt /\ KeyInMerged(agg)
    /\ agg' = DedupStep(agg)
    /\ UNCHANGED <<parser, reg, eng, checker, hook, mode>>

DedupCreate ==
    /\ DedupItemAt /\ ~KeyInMerged(agg)
    /\ agg' = DedupStep(agg)
    /\ UNCHANGED <<parser, reg, eng, checker, hook, mode>>

DedupReturn ==
    /\ DedupAt /\ agg.i >= Len(agg.raw_findings)
    /\ agg' = DedupStep(agg)
    /\ UNCHANGED <<parser, reg, eng, checker, hook, mode>>

DedupRaise ==
    /\ DedupAt /\ agg.i < Len(agg.raw_findings)
    /\ ~HasDetectionMethod(agg.raw_findings[agg.i + 1])
    /\ agg' = DedupStep(agg)
    /\ UNCHANGED <<parser, reg, eng, checker, hook, mode>>

DedupAgain ==
    /\ mode = "dedup" /\ agg.returned /\ agg.calls = 1
    /\ agg' = DedupAgainStart(agg)
    /\ UNCHANGED <<parser, reg, eng, checker, hook, mode>>

NextDedup ==
    \/ DedupMerge
    \/ DedupCreate
    \/ DedupReturn
    \/ DedupRaise
    \/ DedupAgain

SpecDedup == InitDedup /\ [][NextDedup]_vars

\* What the idempotence statement compares of a returned list.
Shown(findings) ==
    [j \in 1..Len(findings) |->
        [key |-> KeyOf(findings[j]), id |-> findings[j].id,
         severity |-> findings[j].severity, is_blocking |-> findings[j].is_blocking]]

\* C20: when the list deduplicate returned is passed to deduplicate again
\* with the same fail_on, the second call returns, and its list has the
\* same keys, order, ids, severities and is_blocking flags as the first.
C20_DedupIdempotent ==
    (mode = "dedup" /\ agg.calls = 2 /\ (agg.i >= Len(agg.raw_findings) \/ agg.error # None)) =>
        /\ agg.error = None
        /\ agg.returned => Shown(agg.merged) = Shown(agg.previous)

\* C3: every finding deduplicate returns is blocking exactly when its final
\* severity is at or above fail_on, merged findings included.
C3_BlockingMatchesSeverity ==
    (mode = "dedup" /\ agg.returned) =>
        \A j \in 1..Len(agg.merged) :
            agg.merged[j].is_blocking
                = (SEVERITY_ORDER(agg.merged[j].severity) >= SEVERITY_ORDER(agg.fail_on))

\* The raw findings of the input that share the key of finding f.
GroupOf(f) == {i \in 1..Len(agg.raw_findings) : KeyOf(agg.raw_findings[i]) = KeyOf(f)}

\* The detection methods of the first n raw findings under key, each once,
\* in order of first occurrence.
RECURSIVE MethodsInOrder(_, _)
MethodsInOrder(key, n) ==
    IF n = 0 THEN <<>>
    ELSE LET before == MethodsInOrder(key, n - 1)
             raw == agg.raw_findings[n]
         IN  IF KeyOf(raw) = key /\ ~Contains(before, raw.detection_method)
             THEN Append(before, raw.detection_method) ELSE before

\* C21: a returned finding has the highest severity of the raw findings
\* under its key, whatever their order, and lists each of their detection
\* methods once, in order of first occurrence.
C21_MergeSeverityAndMethods ==
    (mode = "dedup" /\ agg.returned /\ agg.calls = 1) =>
        \A j \in 1..Len(agg.merged) :
            LET f == agg.merged[j]
            IN  /\ \E i \in GroupOf(f) : agg.raw_findings[i].severity = f.severity
                /\ \A i \in GroupOf(f) :
                       SEVERITY_ORDER(agg.raw_findings[i].severity) <= SEVERITY_ORDER(f.severity)
                /\ f.detection_methods = MethodsInOrder(KeyOf(f), Len(agg.raw_findings))

\* Three raw findings were merged into one, the highest severity first and
\* the first detection method repeated at the end.
C21_Witness ==
    /\ mode = "dedup" /\ agg.returned /\ agg.calls = 1
    /\ Len(agg.raw_findings) = 3 /\ Len(agg.merged) = 1
    /\ SEVERITY_ORDER(agg.raw_findings[1].severity) > SEVERITY_ORDER(agg.raw_findings[2].severity)
    /\ agg.raw_findings[1].detection_method # agg.raw_findings[2].detection_method
    /\ agg.raw_findings[3].detection_method = agg.raw_findings[1].detection_method
    /\ Len(agg.merged[1].detection_methods) = 2

\* The keys of the first n raw findings, each once, in order of first
\* occurrence.
RECURSIVE KeysInOrder(_)
KeysInOrder(n) ==
    IF n = 0 THEN <<>>
    ELSE LET before == KeysInOrder(n - 1)
             key == KeyOf(agg.raw_findings[n])
         IN  IF Contains(before, key) THEN before ELSE Append(before, key)

\* C27: the returned list has one finding per distinct key of the input,
\* with pairwise distinct keys, in the order in which the keys first occur,
\* and the j-th finding has the id FINDING-00j.
C27_KeysOrderIds ==
    (mode = "dedup" /\ agg.returned /\ agg.calls = 1) =>
        /\ [j \in 1..Len(agg.merged) |-> KeyOf(agg.merged[j])] = KeysInOrder(Len(agg.raw_findings))
        /\ \A j, k \in 1..Len(agg.merged) :
               KeyOf(agg.merged[j]) = KeyOf(agg.merged[k]) => j = k
        /\ \A j \in 1..Len(agg.merged) : agg.merged[j].id = <<"FINDING-", 0, 0, j>>

\* The first two raw findings share a key and the third has another one:
\* the second finding of the result comes from the third raw finding.
C27_Witness ==
    /\ mode = "dedup" /\ agg.returned /\ agg.calls = 1
    /\ Len(agg.raw_findings) = 3 /\ Len(agg.merged) = 2
    /\ KeyOf(agg.raw_findings[1]) = KeyOf(agg.raw_findings[2])
    /\ KeyOf(agg.merged[2]) = KeyOf(agg.raw_findings[3])

\* ------------------------------------------------- scan specification
LineKeyPw == Content(<<"AKIA1", "pw1">>, NoMarker, FALSE)
LineEnt2 == Content(<<"hex1", "hex2">>, NoMarker, FALSE)
LinePlain == Content(<<"word">>, NoMarker, FALSE)

ScanAlphabet ==
    {DiffGitLine("x"), DiffGitLine("conf/.env"), SubHeaderLine("binary"), HunkLine(1),
     TextLine("+", LineKeyPw), TextLine("+", LineEnt2), TextLine("+", LinePlain)}

AllowPatterns == {"akia", "hex", "pw"}

ScanConfigs ==
    {GitSafeConfig({}, d, {}, {}, al, ee, mf, "high", TRUE) :
        d \in {{}, {"HIGH_ENTROPY_STRING"}, {"AWS_ACCESS_KEY"}},
        al \in {{}, {"akia"}},
        ee \in BOOLEAN,
        mf \in {NoLimit, Limit(1)}}

\* cli.scan: the registry is built for the config in a fresh process, then
\* scan runs on the diff.
InitScan ==
    /\ mode = "scan"
    /\ hook = HookIdle
    /\ checker = CheckerIdle
    /\ parser = ParserStart(<<>>)
    /\ agg = AggIdle
    /\ \E diff_text \in TextsOver(ScanAlphabet, MaxScanLines), config \in ScanConfigs :
          /\ reg = build_registry(ProcessStart, config, FALSE)
          /\ eng = ScanStart(diff_text, config, reg, 1, NoIgnoreFile)

ScanAt(type) ==
    /\ mode \in {"scan", "calls", "ignore"} /\ eng.status = "loop" /\ eng.k < Len(eng.diff_items)
    /\ eng.diff_items[eng.k + 1].type = type

ScanSkippedItem ==
    /\ ScanAt("FileSkipped")
    /\ eng' = ScanFileSkipped(eng, eng.diff_items[eng.k + 1])
    /\ UNCHANGED <<parser, agg, reg, checker, hook, mode>>

ScanFileItem ==
    /\ ScanAt("DiffFile")
    /\ eng' = ScanDiffFile(eng, eng.diff_items[eng.k + 1])
    /\ UNCHANGED <<parser, agg, reg, checker, hook, mode>>

ScanLineItem ==
    /\ ScanAt("DiffLine")
    /\ eng' = ScanDiffLine(eng, eng.diff_items[eng.k + 1])
    /\ UNCHANGED <<parser, agg, reg, checker, hook, mode>>

ScanAggregate ==
    /\ mode \in {"scan", "calls", "ignore"} /\ eng.status = "loop" /\ eng.k >= Len(eng.diff_items)
    /\ eng' = ScanReturn(eng)
    /\ UNCHANGED <<parser, agg, reg, checker, hook, mode>>

NextScan ==
    \/ ScanSkippedItem
    \/ ScanFileItem
    \/ ScanLineItem
    \/ ScanAggregate

SpecScan == InitScan /\ [][NextScan]_vars

Returned == mode = "scan" /\ eng.status = "returned"
FindingKeys(findings) == {KeyOf(findings[i]) : i \in 1..Len(findings)}

\* C1: adding a pattern to the global allowlist never adds a finding key,
\* whatever early_exit and max_findings are.
C1_AllowlistSafety ==
    Returned =>
        \A pat \in AllowPatterns \ eng.config.allowlist :
            LET larger == [eng.config EXCEPT !.allowlist = @ \cup {pat}]
            IN  FindingKeys(scan(eng.diff_text, larger, reg, 1, eng.ignorefile).findings)
                    \subseteq FindingKeys(eng.findings)

\* The diff with a suppression comment put on the added lines at positions S.
AddedPositions(text) == {i \in 1..Len(text) : text[i].k = "text" /\ text[i].first = "+"}

Suppress(text, S) ==
    [i \in 1..Len(text) |->
        IF i \in S THEN [text[i] EXCEPT !.content.marker = AllMarker] ELSE text[i]]

\* C2: putting suppressions on unsuppressed added lines leaves
\* len(findings) + len(suppressed) unchanged.
C2_SuppressionSum ==
    Returned =>
        \A S \in SUBSET AddedPositions(eng.diff_text) :
            LET res == scan(Suppress(eng.diff_text, S), eng.config, reg, 1, eng.ignorefile)
            IN  Len(res.findings) + Len(res.suppressions)
                    = Len(eng.findings) + Len(eng.suppressions)

\* C4: no finding carries a rule id that rules.disable or ignore.rules lists.
C4_DisabledRuleSilent ==
    Returned =>
        \A i \in 1..Len(eng.findings) :
            eng.findings[i].rule_id \notin eng.config.disable \cup eng.config.ignore_rules

\* ci.max_findings is set and the raw-findings list has reached it while
\* the main loop is still running.
LimitReached ==
    /\ eng.status = "loop"
    /\ eng.config.max_findings.set
    /\ Len(eng.raw_findings) >= eng.config.max_findings.n

AtScannedLine ==
    /\ eng.status = "loop" /\ eng.k < Len(eng.diff_items)
    /\ eng.diff_items[eng.k + 1].type = "DiffLine"
    /\ eng.diff_items[eng.k + 1].file \notin eng.ignored_files_set

\* The main loop is over: every event is consumed or the loop was left.
LoopOver == eng.status = "loop" /\ eng.k >= Len(eng.diff_items)

NewRawFindings == SubSeq(eng'.raw_findings, Len(eng.raw_findings) + 1, Len(eng'.raw_findings))
NewSuppressions == SubSeq(eng'.suppressions, Len(eng.suppressions) + 1, Len(eng'.suppressions))

\* The step produces a finding or a suppression of the rule.
Produces(rule) ==
    \/ \E i \in 1..Len(NewRawFindings) : NewRawFindings[i].rule_id = rule
    \/ \E i \in 1..Len(NewSuppressions) : NewSuppressions[i].rule_id = rule

\* The pattern rules of the registry in registration order, and those of
\* them that match the next added line.
PatternRules == SelectSeq(eng.content_rules, LAMBDA rule : ~is_entropy_rule(rule))

MatchesNextLine(q) == HasMatch(PatternRules[q], eng.diff_items[eng.k + 1].content)

\* The allowlists or .gitsafeignore reject the match of rule q.
RejectedMatch(q) ==
    LET rule == PatternRules[q]
        item == eng.diff_items[eng.k + 1]
        matched == search(rule, item.content)
    IN  \/ match_rule_allowlist(matched, rule)
        \/ match_global_allowlist(matched, eng.config.allowlist)
        \/ is_ignored(eng.ignorefile, item.file, rule)

\* C24: on an added line of a scanned path, with early_exit set no pattern
\* rule registered after a matching rule of severity critical produces a
\* finding or a suppression; every other matching pattern rule is run: it
\* produces a finding or a suppression unless an allowlist or
\* .gitsafeignore rejects its match.
C24_EarlyExit ==
    [][(mode = "scan" /\ AtScannedLine /\ eng'.status = "loop") =>
          \A q \in 1..Len(PatternRules) :
              LET stopped ==
                      /\ eng.config.early_exit
                      /\ \E p \in 1..(q - 1) :
                            MatchesNextLine(p) /\ RuleSeverity(PatternRules[p]) = "critical"
              IN  MatchesNextLine(q) =>
                      /\ stopped => ~Produces(PatternRules[q])
                      /\ ~stopped => (Produces(PatternRules[q]) \/ RejectedMatch(q))]_vars

\* ------------------------------------------ ignored paths specification
\* scan on diffs over three paths with the ignore sections of the config
\* and a .gitsafeignore with a global glob.
LineKeyMarked == Content(<<"AKIA1">>, AllMarker, FALSE)
LineKeyEnt == Content(<<"AKIA1", "hex1">>, NoMarker, FALSE)

IgnoreAlphabet ==
    {DiffGitLine("x"), DiffGitLine("conf/.env"), DiffGitLine(".env.example"),
     SubHeaderLine("binary"), HunkLine(1),
     TextLine("+", LineKeyMarked), TextLine("+", LineKeyEnt)}

IgnorePaths == {"x", "conf/.env", ".env.example"}

GlobalIgnoreFile(globs) == [global_patterns |-> globs, rule_patterns |-> {}]

IgnoreSetups ==
    {<<{}, NoIgnoreFile>>, <<{"conf/*"}, NoIgnoreFile>>, <<{"x"}, NoIgnoreFile>>,
     <<{}, GlobalIgnoreFile({"x"})>>}

IgnoreConfigs ==
    {GitSafeConfig({}, d, {}, {}, {}, FALSE, NoLimit, "high", TRUE) :
        d \in {{}, {"ENV_FILE"}}}

InitIgnore ==
    /\ mode = "ignore"
    /\ hook = HookIdle
    /\ checker = CheckerIdle
    /\ parser = ParserStart(<<>>)
    /\ agg = AggIdle
    /\ \E diff_text \in TextsOver(IgnoreAlphabet, MaxIgnoreLines), config \in IgnoreConfigs, setup \in IgnoreSetups :
          /\ reg = build_registry(ProcessStart, config, FALSE)
          /\ eng = ScanStart(diff_text, [config EXCEPT !.ignore_globs = setup[1]], reg, 1, setup[2])

SpecIgnore == InitIgnore /\ [][NextScan]_vars

\* The path matches a glob of ignore.files or ignore.paths or a global glob
\* of .gitsafeignore.
IgnoredPath(p) ==
    \/ \E g \in eng.config.ignore_globs : fnmatch(p, g)
    \/ \E g \in eng.ignorefile.global_patterns : fnmatch(p, g)

\* The diff has an event of the path.
InDiff(p) ==
    \E i \in 1..Len(eng.diff_items) :
        IF eng.diff_items[i].type = "DiffLine" THEN eng.diff_items[i].file = p
        ELSE eng.diff_items[i].path = p

\* C25: when scan has returned, a path of the diff that matches an ignore
\* glob has no finding and no suppression, has an entry in skipped_files
\* and is not among the scanned files.
C25_IgnoredPathSilent ==
    (mode = "ignore" /\ eng.status = "returned") =>
        \A p \in IgnorePaths :
            (IgnoredPath(p) /\ InDiff(p)) =>
                /\ \A i \in 1..Len(eng.findings) : eng.findings[i].file # p
                /\ \A i \in 1..Len(eng.suppressions) : eng.suppressions[i].file # p
                /\ \E i \in 1..Len(eng.skipped_files) : eng.skipped_files[i][1] = p
                /\ p \notin eng.scanned_files_set

\* The next event is the DiffFile of a path that is not ignored.
AtScannedFile ==
    /\ eng.status = "loop" /\ eng.k < Len(eng.diff_items)
    /\ eng.diff_items[eng.k + 1].type = "DiffFile"
    /\ ~IgnoredPath(eng.diff_items[eng.k + 1].path)

\* Some glob of the file rule matches the basename or the full path.
GlobMatches(rule, filepath) ==
    \E i \in 1..Len(file_patterns(rule)) :
        \/ fnmatch(Basename(filepath), file_patterns(rule)[i])
        \/ fnmatch(filepath, file_patterns(rule)[i])

\* C28: the step on a DiffFile event of a non-ignored path appends, for
\* each enabled file rule, one raw finding when a glob of the rule matches
\* the basename or the path and the rule's allowlist does not match the
\* basename, and none otherwise; each has line_no 0, the basename as
\* matched value and the detection method file_pattern.
C28_FileRuleFindings ==
    [][(mode = "ignore" /\ AtScannedFile) =>
          LET filepath == eng.diff_items[eng.k + 1].path
              of(rule) == {i \in 1..Len(NewRawFindings) : NewRawFindings[i].rule_id = rule}
          IN  /\ \A i \in 1..Len(NewRawFindings) :
                     /\ \E j \in 1..Len(eng.file_rules) : NewRawFindings[i].rule_id = eng.file_rules[j]
                     /\ NewRawFindings[i].file = filepath
                     /\ NewRawFindings[i].line_no = 0
                     /\ NewRawFindings[i].matched_value = Basename(filepath)
                     /\ NewRawFindings[i].detection_method = "file_pattern"
              /\ \A j \in 1..Len(eng.file_rules) :
                     Cardinality(of(eng.file_rules[j])) =
                         IF /\ GlobMatches(eng.file_rules[j], filepath)
                            /\ ~match_rule_allowlist(Basename(filepath), eng.file_rules[j])
                         THEN 1 ELSE 0]_vars

\* A scan with the file rule enabled has passed the DiffFile events of
\* conf/.env, which got its finding, and of .env.example, which matches a
\* glob but is allowlisted by the rule and got none.
C28_Witness ==
    /\ mode = "ignore" /\ eng.status = "returned" /\ eng.file_rules # <<>>
    /\ {"conf/.env", ".env.example"} \subseteq eng.scanned_files_set
    /\ \E i \in 1..Len(eng.diff_items) :
          eng.diff_items[i].type = "DiffFile" /\ eng.diff_items[i].path = ".env.example"
    /\ \E i \in 1..Len(eng.raw_findings) :
          /\ eng.raw_findings[i].file = "conf/.env"
          /\ eng.raw_findings[i].matched_value = ".env"
          /\ eng.raw_findings[i].detection_method = "file_pattern"
    /\ \A i \in 1..Len(eng.raw_findings) : eng.raw_findings[i].file # ".env.example"

\* ------------------------------------------ repeated scan specification
\* One process: the registry is built with the custom rule, scan is called
\* on a diff and, once it has returned, called again with the same
\* arguments.
LineKey == Content(<<"AKIA1">>, NoMarker, FALSE)
LineAlt == Content(<<"alt1">>, NoMarker, FALSE)
LineKeySuppressed == Content(<<"AKIA1">>, AllMarker, FALSE)

CallAlphabet ==
    {DiffGitLine("x"), SubHeaderLine("binary"), HunkLine(1),
     TextLine("+", LineKey), TextLine("+", LineAlt), TextLine("+", LineKeySuppressed)}

CallConfigs ==
    {GitSafeConfig({}, {}, {}, {}, al, FALSE, NoLimit, "high", TRUE) :
        al \in {{}, {"hex"}, {"akia"}, {"["}}}

InitCalls ==
    /\ mode = "calls"
    /\ hook = HookIdle
    /\ checker = CheckerIdle
    /\ parser = ParserStart(<<>>)
    /\ agg = AggIdle
    /\ \E diff_text \in TextsOver(CallAlphabet, MaxCallLines), config \in CallConfigs :
          /\ reg = build_registry(ProcessStart, config, TRUE)
          /\ eng = ScanCall(diff_text, config, NoIgnoreFile)

\* Lines 53-92 of scan: the preparation.
ScanPrepare ==
    /\ mode = "calls" /\ eng.status = "called"
    /\ eng' = [ScanStart(eng.diff_text, eng.config, reg, 1, eng.ignorefile) EXCEPT
                 !.calls = eng.calls, !.previous = eng.previous]
    /\ UNCHANGED <<parser, agg, reg, checker, hook, mode>>

\* The caller keeps the result and calls scan again with the same arguments.
ScanAgain ==
    /\ mode = "calls" /\ eng.status = "returned" /\ eng.calls = 1
    /\ eng' = [ScanCall(eng.diff_text, eng.config, eng.ignorefile) EXCEPT
                 !.calls = 2,
                 !.previous = <<[findings |-> eng.findings,
                                 suppressions |-> eng.suppressions]>>]
    /\ UNCHANGED <<parser, agg, reg, checker, hook, mode>>

NextCalls ==
    \/ ScanPrepare
    \/ ScanSkippedItem
    \/ ScanFileItem
    \/ ScanLineItem
    \/ ScanAggregate
    \/ ScanAgain

SpecCalls == InitCalls /\ [][NextCalls]_vars

Raised == mode = "calls" /\ eng.status = "raised"

\* C15: whatever fails inside scan, the caller sees a ScanError and the
\* raw-findings list is empty when it propagates.
C15_OnlyScanError ==
    Raised => eng.error.type = "ScanError" /\ eng.raw_findings = <<>>

SecretValues == {"AKIA1", "AKIA2", "AKIAEXAMPLE", "pw1", "hex1", "hex2", "alt1"}

\* The diff with every matched value AKIA1 replaced by AKIA2.
OtherSecrets(text) ==
    [i \in 1..Len(text) |->
        [text[i] EXCEPT !.content.toks =
            [j \in 1..Len(@) |-> IF @[j] = "AKIA1" THEN "AKIA2" ELSE @[j]]]]

\* C16: the message of a ScanError holds no matched value, and the scan of
\* a diff that differs only in the matched values raises a ScanError with
\* the same message.
C16_OpaqueScanError ==
    (Raised /\ eng.error.type = "ScanError") =>
        /\ \A i \in 1..Len(eng.error.message) : eng.error.message[i] \notin SecretValues
        /\ LET other == scan(OtherSecrets(eng.diff_text), eng.config, reg, 1, eng.ignorefile)
           IN  other.status = "raised" /\ other.error = eng.error

\* A scan has failed after recording a finding for a matched value.
C16_Witness ==
    /\ Raised /\ eng.error = ScanError(1)
    /\ \E i \in 1..Len(eng.diff_text) :
          eng.diff_text[i].k = "text" /\ eng.diff_text[i].content = LineKey

RulesConfig(enable, disable, ignore_rules) ==
    [enable |-> enable, disable |-> disable, ignore_rules |-> ignore_rules]

RegistryConfigs ==
    {RulesConfig(e, d, ig) :
        e \in {{}, {"AWS_ACCESS_KEY"}, {"HARDCODED_PASSWORD", "CUSTOM_1"}},
        d \in {{}, {"AWS_ACCESS_KEY"}, {"HIGH_ENTROPY_STRING"}},
        ig \in {{}, {"HARDCODED_PASSWORD"}}}

InitRegistry ==
    /\ mode = "registry"
    /\ hook = HookIdle
    /\ checker = CheckerIdle
    /\ parser = ParserStart(<<>>)
    /\ agg = AggIdle
    /\ reg = ProcessStart
    /\ eng = EngIdle

Called(st, op, r, config) ==
    [st EXCEPT !.last = [op |-> op, registry |-> r, config |-> config],
               !.calls = st.calls + 1]

BuildRegistry ==
    /\ mode = "registry" /\ reg.calls < MaxCalls
    /\ \E config \in RegistryConfigs, has_custom \in BOOLEAN :
          reg' = Called(build_registry(reg, config, has_custom), "build_registry",
                        Len(reg.registries) + 1, config)
    /\ UNCHANGED <<parser, agg, eng, checker, hook, mode>>

ApplyConfig ==
    /\ mode = "registry" /\ reg.calls < MaxCalls
    /\ \E r \in 1..Len(reg.registries), config \in RegistryConfigs :
          reg' = Called(apply_config(reg, r, config), "apply_config", r, config)
    /\ UNCHANGED <<parser, agg, eng, checker, hook, mode>>

NextRegistry ==
    \/ BuildRegistry
    \/ ApplyConfig

SpecRegistry == InitRegistry /\ [][NextRegistry]_vars

EnabledIds(st, r) == SeqToSet(enabled_rules(st, r))
RegisteredIds(st, r) == {o.rule : o \in SeqToSet(st.registries[r])}

\* C5: the registry build_registry returns has the enabled set a first
\* build in a fresh process would give for the same config, and building it
\* leaves the enabled set of every earlier registry as it was.
C5_BuildIndependent ==
    [][(mode = "registry" /\ reg'.last.op = "build_registry" /\ reg'.calls = reg.calls + 1) =>
         LET n == Len(reg'.registries)
             has_custom == Len(reg'.registries[n]) > Len(BuiltinIds)
         IN  /\ EnabledIds(reg', n)
                  = EnabledIds(build_registry(ProcessStart, reg'.last.config, has_custom), 1)
             /\ \A r \in 1..Len(reg.registries) : EnabledIds(reg', r) = EnabledIds(reg, r)]_vars

Policy(config, id) ==
    /\ config.enable = {} \/ id \in config.enable
    /\ id \notin config.disable
    /\ id \notin config.ignore_rules

\* C6: on the one registry of a process (its rules were registered
\* enabled), after any sequence of apply_config calls a rule is enabled iff
\* the last config's enable list is empty or has it and neither disable nor
\* ignore.rules has it.
C6_ApplyConfigPolicy ==
    (mode = "registry" /\ Len(reg.registries) = 1) =>
        \A id \in RegisteredIds(reg, 1) :
            (id \in EnabledIds(reg, 1)) <=> Policy(reg.last.config, id)

\* ------------------------------------------- suppression specification
\* register_lines(file, lines) on one file's added lines, then is_suppressed
\* queries on the checker it filled.
ScopedMarker(ids) == [present |-> TRUE, scoped |-> TRUE, ids |-> ids]

SuppressContents ==
    {PlainContent,
     Content(<<"AKIA1">>, AllMarker, FALSE),
     Content(<<"AKIA1">>, ScopedMarker({"AWS_ACCESS_KEY"}), FALSE),
     Content(<<"AKIA1">>, ScopedMarker({}), FALSE),
     Content(<<>>, NoMarker, TRUE),
     Content(<<>>, AllMarker, TRUE),
     Content(<<>>, ScopedMarker({"AWS_ACCESS_KEY"}), TRUE),
     Content(<<>>, ScopedMarker({"HARDCODED_PASSWORD"}), TRUE)}

SuppressRules == {"AWS_ACCESS_KEY", "HARDCODED_PASSWORD"}

\* The added lines of one file as the engine collects them: line numbers
\* ascending, not always consecutive, or, when hunk headers repeat a start
\* or the path has two file blocks, numbers that occur again.
Ascending(nums) == \A i \in 1..(Len(nums) - 1) : nums[i] < nums[i + 1]

SuppressNumbers(n) ==
    {q \in [1..n -> 1..(MaxSupLines + 1)] : Ascending(q)}
        \cup (IF n <= MaxRepeatLines THEN [1..n -> 1..2] ELSE {})

SuppressLines ==
    UNION {{[j \in 1..n |-> <<nums[j], cs[j]>>] :
               nums \in SuppressNumbers(n),
               cs \in [1..n -> SuppressContents]} : n \in 1..MaxSupLines}

InitSuppress ==
    /\ mode = "suppress"
    /\ hook = HookIdle
    /\ parser = ParserStart(<<>>)
    /\ agg = AggIdle
    /\ reg = ProcessStart
    /\ eng = EngIdle
    /\ \E lines \in SuppressLines : checker = CheckerStart("a.py", lines)

RegisterMarkedLine ==
    /\ mode = "suppress" /\ checker.status = "registering"
    /\ checker.i < Len(checker.lines)
    /\ parse_inline_suppression(checker.lines[checker.i + 1][2]).is_suppressed
    /\ checker' = RegisterStep(checker)
    /\ UNCHANGED <<parser, agg, reg, eng, hook, mode>>

RegisterUnmarkedLine ==
    /\ mode = "suppress" /\ checker.status = "registering"
    /\ checker.i < Len(checker.lines)
    /\ ~parse_inline_suppression(checker.lines[checker.i + 1][2]).is_suppressed
    /\ checker' = RegisterStep(checker)
    /\ UNCHANGED <<parser, agg, reg, eng, hook, mode>>

RegisterFile ==
    /\ mode = "suppress" /\ checker.status = "registering"
    /\ checker.i = Len(checker.lines)
    /\ checker' = RegisterStore(checker)
    /\ UNCHANGED <<parser, agg, reg, eng, hook, mode>>

AskSuppressed ==
    /\ mode = "suppress" /\ checker.status = "registered"
    /\ \E file \in {"a.py", "b.py"}, line_no \in 1..(MaxSupLines + 1), rule_id \in SuppressRules :
          checker' = [checker EXCEPT
                         !.asked = <<[file |-> file, line_no |-> line_no, rule_id |-> rule_id]>>,
                         !.result = is_suppressed(checker.line_suppressions, file, line_no, rule_id)]
    /\ UNCHANGED <<parser, agg, reg, eng, hook, mode>>

NextSuppress == RegisterMarkedLine \/ RegisterUnmarkedLine \/ RegisterFile \/ AskSuppressed

SpecSuppress == InitSuppress /\ [][NextSuppress]_vars

\* The marker of entry i covers rule_id.
Covers(marker, rule_id) == marker.present /\ (~marker.scoped \/ rule_id \in marker.ids)

MarkerOf(i) == checker.lines[i][2].marker

CommentMarker(i) == MarkerOf(i).present /\ is_pure_comment(checker.lines[i][2])

SuppressedAt(i, rule_id) ==
    is_suppressed(checker.line_suppressions, checker.file, checker.lines[i][1], rule_id) # <<>>

\* C18: once the file is registered, a marker-bearing pure comment at
\* entry i suppresses on entry i+1 every rule it covers, whatever entry i+1
\* contains, and entry i+2 is not suppressed because of entry i: with no
\* marker of its own and no marker comment right before it, it is not
\* suppressed at all.
C18_NextLine ==
    (mode = "suppress" /\ checker.status = "registered") =>
        \A i \in 1..Len(checker.lines) :
            CommentMarker(i) =>
                /\ i + 1 <= Len(checker.lines) =>
                       \A r \in SuppressRules : Covers(MarkerOf(i), r) => SuppressedAt(i + 1, r)
                /\ (/\ i + 2 <= Len(checker.lines)
                    /\ ~MarkerOf(i + 2).present
                    /\ ~CommentMarker(i + 1)) =>
                       \A r \in SuppressRules : ~SuppressedAt(i + 2, r)

\* The marker in force on entry i as register_lines records it: the
\* entry's own marker, else the marker of a pure comment right before it.
MarkerInForce(i) ==
    IF MarkerOf(i).present THEN MarkerOf(i)
    ELSE IF i > 1 /\ CommentMarker(i - 1) THEN MarkerOf(i - 1)
    ELSE NoMarker

EntriesAt(file, line_no) ==
    {i \in 1..Len(checker.lines) : file = checker.file /\ checker.lines[i][1] = line_no}

C29_MarkerCoversThatLine ==
    (mode = "suppress" /\ checker.asked # <<>> /\ checker.result # <<>>) =>
        LET q == checker.asked[1]
        IN  /\ EntriesAt(q.file, q.line_no) # {}
            /\ \A i \in EntriesAt(q.file, q.line_no) :
                   \/ Covers(MarkerOf(i), q.rule_id)
                   \/ i > 1 /\ CommentMarker(i - 1) /\ Covers(MarkerOf(i - 1), q.rule_id)

\* ------------------------------------------------- hook specification
HookLines == {"#!/bin/sh", "echo existing", HOOK_MARKER, "run-hooks # gitsafe-hook, lint"}

HookRepos ==
    {Repo(FALSE, FALSE, Absent), Repo(TRUE, FALSE, Absent), Repo(TRUE, TRUE, Absent)}
    \cup {Repo(TRUE, TRUE, HookFile(lines, x)) :
             lines \in TextsOver(HookLines, MaxHookLines), x \in BOOLEAN}

InitHook ==
    /\ mode = "hook"
    /\ parser = ParserStart(<<>>)
    /\ agg = AggIdle
    /\ reg = ProcessStart
    /\ eng = EngIdle
    /\ checker = CheckerIdle
    /\ \E repo \in HookRepos : hook = HookStart(repo)

HookAt == mode = "hook" /\ hook.calls < MaxHookCalls

Install ==
    /\ HookAt
    /\ \E chmod_ok \in BOOLEAN :
          hook' = AfterCall(hook, "install", FALSE, install_hook(hook.repo, FALSE, chmod_ok))
    /\ UNCHANGED <<parser, agg, reg, eng, checker, mode>>

InstallForce ==
    /\ HookAt
    /\ \E chmod_ok \in BOOLEAN :
          hook' = AfterCall(hook, "install", TRUE, install_hook(hook.repo, TRUE, chmod_ok))
    /\ UNCHANGED <<parser, agg, reg, eng, checker, mode>>

Uninstall ==
    /\ HookAt
    /\ hook' = AfterCall(hook, "uninstall", FALSE, uninstall_hook(hook.repo))
    /\ UNCHANGED <<parser, agg, reg, eng, checker, mode>>

NextHook == Install \/ InstallForce \/ Uninstall

SpecHook == InitHook /\ [][NextHook]_vars

\* The step is a call of install_hook(force=False) or of uninstall_hook.
UnforcedCall == hook'.calls = hook.calls + 1 /\ ~hook'.force

\* C22: a call of install_hook(force=False) or uninstall_hook on a
\* pre-commit file without the marker reports failure and leaves the file
\* as it is; a file is deleted only by uninstall_hook and only when it
\* carries the marker; install_hook on a file with the marker reports
\* success and leaves the file as it is.
C22_ForeignHookKept ==
    [][(mode = "hook" /\ UnforcedCall) =>
          /\ (hook.repo.file.exists /\ ~MarkerIn(hook.repo.file)) =>
                 (~hook'.success /\ hook'.repo.file = hook.repo.file)
          /\ (hook.repo.file.exists /\ ~hook'.repo.file.exists) =>
                 (hook'.op = "uninstall" /\ MarkerIn(hook.repo.file))
          /\ (hook'.op = "uninstall" /\ hook.repo.file.exists /\ MarkerIn(hook.repo.file)) =>
                 (hook'.success /\ ~hook'.repo.file.exists)
          /\ (hook'.op = "install" /\ hook.repo.file.exists /\ MarkerIn(hook.repo.file)) =>
                 (hook'.success /\ hook'.repo.file = hook.repo.file)]_vars

\* After a refused uninstall_hook, install_hook(force=False) was refused
\* too, on a pre-commit file without the marker.
C22_Witness ==
    /\ mode = "hook" /\ hook.calls >= 2
    /\ hook.op = "install" /\ ~hook.force /\ ~hook.success
    /\ hook.repo.file.exists /\ ~MarkerIn(hook.repo.file) /\ hook.repo.file.lines # <<>>

\* ------------------------------------------------ parser properties
\* What the text says about the file block a line belongs to, read off the
\* text alone (positions count from 1).
IsSubHeader(l) ==
    l.k \in {"index", "similarity", "old_mode", "new_mode", "deleted_file",
             "new_file", "rename_from", "rename_to", "binary"}

SubHeaderKinds(lines, pos) ==
    {lines[j].k : j \in {i \in pos + 1..Len(lines) :
                            \A m \in pos + 1..i : IsSubHeader(lines[m])}}

HunkInBlock(lines, pos) ==
    \E j \in pos + 1..Len(lines) :
        HUNK_HEADER_RE(lines[j]) /\ \A m \in pos + 1..j : ~DIFF_HEADER_RE(lines[m])

HasHeaderBefore(lines, pos) == \E j \in 1..pos : DIFF_HEADER_RE(lines[j])

BlockHeader(lines, pos) ==
    CHOOSE j \in 1..pos : DIFF_HEADER_RE(lines[j])
                          /\ \A m \in j + 1..pos : ~DIFF_HEADER_RE(lines[m])

InHunk(lines, pos) ==
    /\ HasHeaderBefore(lines, pos)
    /\ \E j \in BlockHeader(lines, pos) + 1..pos - 1 : HUNK_HEADER_RE(lines[j])

Stepping == mode = "parse" /\ ~parser.done /\ parser.idx < total(parser)
CurPos == parser.idx + 1
CurLine == parser.lines[CurPos]
\* What the generator has yielded or still holds in its buffer.
AllEmitted(ps) == IF ps.done THEN ps.yielded ELSE ps.yielded \o ps.hunk_buffer
NewEvents == SubSeq(AllEmitted(parser'), Len(AllEmitted(parser)) + 1, Len(AllEmitted(parser')))

\* C7: every DiffLine the parser emits has line_no >= 1, whatever the input.
C7_ParserTotality ==
    \A i \in 1..Len(AllEmitted(parser)) :
        AllEmitted(parser)[i].type = "DiffLine" => AllEmitted(parser)[i].line_no >= 1

\* C8: a hunk header sets the line counter to its new-side start; inside a
\* hunk each '+' line is emitted with the counter and advances it by one,
\* each context line advances it by one, a '-' line leaves it alone.
C8_LineCounter ==
    [][Stepping =>
         /\ HUNK_HEADER_RE(CurLine) => parser'.line_no = CurLine.start
         /\ (InHunk(parser.lines, CurPos) /\ ~SUBPROJECT_RE(CurLine)
               /\ startswith(CurLine, "+"))
              => /\ parser'.line_no = parser.line_no + 1
                 /\ Len(NewEvents) = 1
                 /\ NewEvents[1].type = "DiffLine"
                 /\ NewEvents[1].line_no = parser.line_no
         /\ (InHunk(parser.lines, CurPos) /\ startswith(CurLine, " "))
              => parser'.line_no = parser.line_no + 1
         /\ (InHunk(parser.lines, CurPos) /\ ~SUBPROJECT_RE(CurLine)
               /\ startswith(CurLine, "-"))
              => parser'.line_no = parser.line_no]_vars

\* C9: a file block whose sub-headers include 'Binary files ... differ'
\* yields exactly one FileSkipped(binary) and nothing else, whatever lines
\* follow before the next 'diff --git' header.
C9_BinaryExclusion ==
    [][Stepping =>
         /\ (DIFF_HEADER_RE(CurLine) /\ "binary" \in SubHeaderKinds(parser.lines, CurPos))
              => NewEvents = <<FileSkipped(parser'.current_file, "binary")>>
         /\ (/\ ~DIFF_HEADER_RE(CurLine)
             /\ HasHeaderBefore(parser.lines, CurPos)
             /\ "binary" \in SubHeaderKinds(parser.lines, BlockHeader(parser.lines, CurPos)))
              => NewEvents = <<>>]_vars

ModeChangeBlock == {"old_mode", "new_mode"} \subseteq SubHeaderKinds(parser.lines, CurPos)

ModeOnlyOutcome ==
    IF HunkInBlock(parser.lines, CurPos)
    THEN Len(NewEvents) = 1 /\ NewEvents[1].type = "DiffFile"
    ELSE NewEvents = <<FileSkipped(parser'.current_file, "mode_only")>>

\* C10 as stated: a block with old mode / new mode sub-headers yields one
\* FileSkipped(mode_only) when it has no hunk header, a DiffFile when it has.
C10_ModeOnly_AsStated ==
    [][(Stepping /\ DIFF_HEADER_RE(CurLine) /\ ModeChangeBlock) => ModeOnlyOutcome]_vars

\* C10 amended: the same, for blocks that carry no 'Binary files' sub-header.
C10_ModeOnly ==
    [][(/\ Stepping /\ DIFF_HEADER_RE(CurLine) /\ ModeChangeBlock
        /\ "binary" \notin SubHeaderKinds(parser.lines, CurPos)) => ModeOnlyOutcome]_vars

\* A mode-only block has been parsed and skipped.
C10_Witness ==
    /\ mode = "parse" /\ parser.done
    /\ \E pos \in 1..Len(parser.lines) :
          /\ DIFF_HEADER_RE(parser.lines[pos])
          /\ {"old_mode", "new_mode"} \subseteq SubHeaderKinds(parser.lines, pos)
          /\ "binary" \notin SubHeaderKinds(parser.lines, pos)
          /\ ~HunkInBlock(parser.lines, pos)
    /\ \E i \in 1..Len(parser.yielded) :
          parser.yielded[i] = FileSkipped("x", "mode_only")

BlockLines(lines, pos) ==
    {j \in pos + 1..Len(lines) : \A m \in pos + 1..j : ~DIFF_HEADER_RE(lines[m])}

SubHeaderRun(lines, pos) ==
    {j \in pos + 1..Len(lines) : \A m \in pos + 1..j : IsSubHeader(lines[m])}

RenamedEvent == NewEvents = <<DiffFile("n", "o", "renamed")>>

AddedLineStep ==
    /\ Stepping /\ Branch(parser) = "content"
    /\ parser.current_file # None /\ startswith(CurLine, "+")

OneBomRemoved(c) == [c EXCEPT !.bom = IF c.bom > 0 THEN c.bom - 1 ELSE 0]

\* C12: the content of an emitted DiffLine is the line without its leading
\* '+', less one leading U+FEFF when it starts with one; every other
\* character, a second U+FEFF included, is kept.
C12_BomStripping ==
    [][AddedLineStep =>
         /\ Len(NewEvents) = 1
         /\ NewEvents[1].type = "DiffLine"
         /\ NewEvents[1].content = OneBomRemoved(CurLine.content)]_vars

\* C13: a carriage return inside an added line does not split the line,
\* and an added line that ends with a carriage return before its line feed
\* is emitted with that carriage return at the end of its content.
C13_CarriageReturn ==
    [][mode = "parse" =>
         /\ Len(parser.lines) = Len(parser.diff_text)
         /\ (AddedLineStep /\ Len(parser.lines) = Len(parser.diff_text))
              => /\ Len(NewEvents) = 1
                 /\ NewEvents[1].content.cr = parser.diff_text[CurPos].content.cr]_vars

IsFileEvent(e) == e.type \in {"DiffFile", "FileSkipped"}

IsPrefix(s, t) == Len(s) <= Len(t) /\ SubSeq(t, 1, Len(s)) = s

\* The nearest file event before event i is the one of the DiffLine's path.
FileEventBefore(E, i) ==
    \E j \in 1..i - 1 :
        /\ IsFileEvent(E[j]) /\ E[j].path = E[i].file
        /\ \A m \in j + 1..i - 1 : ~IsFileEvent(E[m])

StreamOrdered(E) == \A i \in 1..Len(E) : E[i].type = "DiffLine" => FileEventBefore(E, i)

\* line_no never goes down between two DiffLines of one file block.
AscendingInBlock(E) ==
    \A i, j \in 1..Len(E) :
        (/\ i < j /\ \A m \in i..j : E[m].type = "DiffLine") => E[i].line_no <= E[j].line_no

\* line_no goes up between the DiffLines buffered since the last header.
AscendingInHunk(ps) ==
    \A i, j \in 1..Len(ps.hunk_buffer) :
        i < j => ps.hunk_buffer[i].line_no < ps.hunk_buffer[j].line_no

\* C14 as stated: events are emitted in diff order, the file event of a
\* block comes before its DiffLines with no event of another file between
\* them, and the DiffLines of a block have ascending line_no.
C14_Ordering_AsStated ==
    [][mode = "parse" =>
         /\ IsPrefix(AllEmitted(parser), AllEmitted(parser'))
         /\ StreamOrdered(AllEmitted(parser'))
         /\ AscendingInBlock(AllEmitted(parser'))]_vars

\* C14 amended: the same, with line_no ascending within each hunk only; a
\* later hunk header may set the counter back.
C14_Ordering ==
    [][mode = "parse" =>
         /\ IsPrefix(AllEmitted(parser), AllEmitted(parser'))
         /\ StreamOrdered(AllEmitted(parser'))
         /\ AscendingInHunk(parser')]_vars

\* Two files have been parsed, each with an added line, the first with two.
C14_Witness ==
    /\ mode = "parse" /\ parser.done
    /\ \E i, j, k, l, m \in 1..Len(parser.yielded) :
          /\ i < j /\ j < k /\ k < l /\ l < m
          /\ parser.yielded[i] = DiffFile("x", None, "modified")
          /\ parser.yielded[j].type = "DiffLine" /\ parser.yielded[j].file = "x"
          /\ parser.yielded[k].type = "DiffLine" /\ parser.yielded[k].file = "x"
          /\ parser.yielded[l] = DiffFile("y", None, "modified")
          /\ parser.yielded[m].type = "DiffLine" /\ parser.yielded[m].file = "y"

\* C26: inside a hunk, the step on a line that begins with '+' and is not
\* a Subproject-commit line buffers exactly one DiffLine, numbered with
\* the line counter, and advances the counter by one; this includes the
\* lines that begin with '+++ ', which are file headers only before the
\* first hunk header of a file block.
C26_AddedLineInHunk ==
    [][(/\ Stepping /\ InHunk(parser.lines, CurPos)
        /\ startswith(CurLine, "+") /\ ~SUBPROJECT_RE(CurLine)) =>
          /\ Len(parser'.hunk_buffer) = Len(parser.hunk_buffer) + 1
          /\ SubSeq(parser'.hunk_buffer, 1, Len(parser.hunk_buffer)) = parser.hunk_buffer
          /\ parser'.hunk_buffer[Len(parser'.hunk_buffer)].file = parser.current_file
          /\ parser'.hunk_buffer[Len(parser'.hunk_buffer)].line_no = parser.line_no
          /\ parser'.line_no = parser.line_no + 1
          /\ parser'.yielded = parser.yielded]_vars

\* The lines one iteration of the main loop consumes: the line itself and,
\* after a 'diff --git' line, the run of sub-headers that follows it.
Consumed ==
    IF DIFF_HEADER_RE(CurLine) THEN 1 + Cardinality(SubHeaderRun(parser.lines, CurPos))
    ELSE 1

\* C30: parse terminates: every iteration of the main loop moves the line
\* index forward, by one on every branch but 'diff --git', where it moves
\* past the header and each sub-header the inner loop matched, never past
\* the end of the input; and the generator is exhausted in the end, with
\* the index at the number of lines.
C30_ParseTerminates ==
    /\ [][Stepping => /\ parser'.idx = parser.idx + Consumed
                      /\ parser'.idx <= total(parser)
                      /\ parser'.lines = parser.lines]_vars
    /\ <>(parser.done /\ parser.idx = total(parser))

\* A file block with a sub-header, a hunk header and a removed line has
\* been parsed to the end.
C30_Witness ==
    /\ mode = "parse" /\ parser.done /\ parser.idx = total(parser)
    /\ \E i, j, k \in 1..Len(parser.lines) :
          /\ i + 1 < j /\ j < k
          /\ DIFF_HEADER_RE(parser.lines[i]) /\ IsSubHeader(parser.lines[i + 1])
          /\ HUNK_HEADER_RE(parser.lines[j])
          /\ startswith(parser.lines[k], "-")

====
